---- MODULE Spec2Model ----
(***************************************************************************)
(* Gastropath: the enrichment pipeline (gastropath.py) and its trigger     *)
(* endpoint (gastropath_server.py).                                        *)
(*                                                                         *)
(* Python values are tagged records [t, v]: t is the Python type, v the    *)
(* value.  Python strings are TLA+ strings.  The two emoji of the source   *)
(* are written in ASCII: GLYPH stands for the banknote emoji of line 149   *)
(* and UNKNOWN for the question-mark emoji of lines 147, 224-242, 331-336. *)
(***************************************************************************)
EXTENDS Integers, Sequences, FiniteSets, TLC

VARIABLES
    n_details,      \* process_place_details: the raw provider result handed in
    n_record,       \* process_place_details: the record returned
    argv,           \* sys.argv[1:] of the pipeline process
    db,             \* the rows the database query answers with
    pc,             \* position of the pipeline process
    restaurants,    \* main: the list get_restaurants_from_notion returned
    idx,            \* main: index of the loop over restaurants
    entry,          \* process_restaurant: its argument
    expanded_url,   \* get_place_details_from_google: local expanded_url
    ftid,           \* get_place_details_from_google: local ftid
    query,          \* get_place_details_from_google: local query
    place_details,  \* process_restaurant: local place_details
    cover_url,      \* process_restaurant: local cover_url
    place_id,       \* get_place_details_from_google: local place_id
    entry_log,      \* the line process_restaurant logged at 363-369 for the entry
    calls,          \* the external requests made for the current entry, in order
    attempted,      \* the entries process_restaurant was called with, in order
    log,            \* the markers written to the run log, in order
    exitcode,       \* exit status of the pipeline process
    request,        \* add_restaurant: the HTTP request being served
    response,       \* add_restaurant: the HTTP response returned
    invoked         \* add_restaurant: number of subprocess.run calls made

nvars == <<n_details, n_record>>
pvars == <<argv, db, pc, restaurants, idx, entry, expanded_url, ftid, query, place_details,
           cover_url, place_id, entry_log, calls, attempted, log, exitcode>>
svars == <<request, response, invoked>>
vars == <<nvars, pvars, svars>>

----------------------------------------------------------------------------
(* Python values *)

PyNone == [t |-> "None", v |-> ""]
PyStr(s) == [t |-> "str", v |-> s]
PyInt(n) == [t |-> "int", v |-> n]
PyFloat(n) == [t |-> "float", v |-> n]

\* Python truthiness, as used by "if x:" and "not x".
Truthy(x) ==
    CASE x.t = "None" -> FALSE
      [] x.t = "str" -> x.v # ""
      [] x.t = "int" -> x.v # 0
      [] x.t = "float" -> x.v # 0
      [] OTHER -> TRUE

\* dict.get(key, default)
Get(d, key, default) == IF key \in DOMAIN d THEN d[key] ELSE default

\* str.startswith
startswith(s, prefix) ==
    /\ Len(s) >= Len(prefix)
    /\ SubSeq(s, 1, Len(prefix)) = prefix

\* str * int: a non-positive count gives the empty string.  The copies are
\* built by halving, which keeps the recursion shallow for a long string.
RECURSIVE StrTimes(_, _)
StrTimes(s, n) ==
    IF n <= 0 THEN ""
    ELSE IF n = 1 THEN s
    ELSE StrTimes(s, n \div 2) \o StrTimes(s, n - (n \div 2))

GLYPH == "$"
UNKNOWN == "?"

----------------------------------------------------------------------------
(* process_place_details, gastropath.py 145-175 *)

\* lines 147-149: the price tier.  isinstance(price_level, int) holds of the
\* values tagged "int" only.
price_level_of(details) ==
    LET price_level == Get(details, "price_level", PyStr(UNKNOWN))
    IN  IF price_level.t = "int"
        THEN PyStr(StrTimes(GLYPH, price_level.v))
        ELSE price_level

\* lines 152-158: one pass over address_components; every matching component
\* assigns, and the loop has no break.
RECURSIVE scan_address_components(_, _)
scan_address_components(address_components, found) ==
    IF address_components = <<>>
    THEN found
    ELSE LET component == Head(address_components)
             types == Get(component, "types", {})
             city == IF "locality" \in types
                     THEN Get(component, "long_name", PyNone)
                     ELSE found.city
             country == IF "country" \in types
                        THEN Get(component, "long_name", PyNone)
                        ELSE found.country
         IN  scan_address_components(Tail(address_components),
                                     [city |-> city, country |-> country])

\* lines 150-158
city_country_of(details) ==
    scan_address_components(
        Get(details, "address_components", <<>>),
        [city |-> PyStr("No city available"),
         country |-> PyStr("No country available")])

\* lines 162-164
photo_reference_of(details) ==
    LET photos == Get(details, "photos", <<>>)
    IN  IF photos # <<>> THEN photos[1].photo_reference ELSE PyNone

process_place_details(details) ==
    [name |-> Get(details, "name", PyStr("Unknown")),
     website |-> Get(details, "website", PyStr("No website available")),
     price_level |-> price_level_of(details),
     city |-> city_country_of(details).city,
     country |-> city_country_of(details).country,
     google_maps_link |-> Get(details, "url", PyStr("No link available")),
     address |-> Get(details, "formatted_address", PyStr("No address available")),
     photo_reference |-> photo_reference_of(details)]

----------------------------------------------------------------------------
(* Strings: the helpers the URL handling needs *)

\* The characters m..n of s, as a Python slice gives them: positions outside
\* the string are left out.
Slice(s, m, n) ==
    IF m > n \/ m > Len(s) \/ n < 1 THEN ""
    ELSE SubSeq(s, IF m < 1 THEN 1 ELSE m, IF n > Len(s) THEN Len(s) ELSE n)

CharAt(s, i) == Slice(s, i, i)

\* F(v), with v evaluated once.
ByValue(F(_), v) == CHOOSE r \in {F(x) : x \in {v}} : TRUE

\* The least index >= from of a character of s that is in chars, or
\* Len(s) + 1 when there is none.
IndexOfAny(s, chars, from) ==
    LET hits == {i \in from..Len(s) : CharAt(s, i) \in chars}
    IN  IF hits = {} THEN Len(s) + 1
        ELSE CHOOSE i \in hits : \A j \in hits : i <= j

\* The pieces of s between the positions cuts, in order.
SplitAt(s, cuts) ==
    [k \in 1..(Cardinality(cuts) + 1) |->
        LET before == {i \in cuts : Cardinality({j \in cuts : j < i}) = k - 2}
            after == {i \in cuts : Cardinality({j \in cuts : j < i}) = k - 1}
        IN  Slice(s,
                  IF k = 1 THEN 1 ELSE (CHOOSE i \in before : TRUE) + 1,
                  IF after = {} THEN Len(s)
                  ELSE (CHOOSE i \in after : TRUE) - 1)]

\* str.split(sep) for a one-character separator
Split(s, sep) ==
    ByValue(LAMBDA str :
                SplitAt(str, {i \in 1..Len(str) : CharAt(str, i) = sep}),
            s)

\* urlparse: the index of the colon that ends the scheme, or 0 when the url
\* has no scheme (no colon, or a "/", "?" or "#" before it).
scheme_end(url) ==
    LET colon == IndexOfAny(url, {":"}, 1)
    IN  IF colon > 1 /\ colon <= Len(url)
           /\ IndexOfAny(url, {"/", "?", "#"}, 1) > colon
        THEN colon ELSE 0

\* urlparse, after the scheme: the netloc is read only after "//" and ends
\* at "/", "?" or "#"; the path ends at "?" or "#"; the query at "#".
urlparse_after(url, colon) ==
    LET hasNetloc == Slice(url, colon + 1, colon + 2) = "//"
        netlocStart == IF hasNetloc THEN colon + 3 ELSE colon + 1
        pathStart == IF hasNetloc
                     THEN IndexOfAny(url, {"/", "?", "#"}, netlocStart)
                     ELSE netlocStart
        pathEnd == IndexOfAny(url, {"?", "#"}, pathStart)
        hasQuery == pathEnd <= Len(url) /\ CharAt(url, pathEnd) = "?"
        queryEnd == IndexOfAny(url, {"#"}, pathEnd)
    IN  [scheme |-> Slice(url, 1, colon - 1),
         netloc |-> Slice(url, netlocStart, pathStart - 1),
         path |-> Slice(url, pathStart, pathEnd - 1),
         query |-> IF hasQuery THEN Slice(url, pathEnd + 1, queryEnd - 1)
                   ELSE ""]

\* urllib.parse.urlparse for scheme://netloc/path?query#fragment
urlparse(url) ==
    ByValue(LAMBDA colon : urlparse_after(url, colon), scheme_end(url))

\* urllib.parse.parse_qs: the pairs name=value of the query, in order; a pair
\* with a blank value is dropped (keep_blank_values is False).  The result
\* maps each name to the list of its values.
name_value(field) ==
    ByValue(LAMBDA eq : <<Slice(field, 1, eq - 1),
                          Slice(field, eq + 1, Len(field))>>,
            IndexOfAny(field, {"="}, 1))

pairs_of(fields) ==
    SelectSeq([i \in 1..Len(fields) |-> name_value(fields[i])],
              LAMBDA p : p[2] # "")

QueryPairs(qs) ==
    IF qs = "" THEN <<>> ELSE ByValue(pairs_of, Split(qs, "&"))

values_by_name(pairs) ==
    [k \in {pairs[i][1] : i \in 1..Len(pairs)} |->
        LET mine == SelectSeq(pairs, LAMBDA p : p[1] = k)
        IN  [i \in 1..Len(mine) |-> mine[i][2]]]

parse_qs(qs) == ByValue(values_by_name, QueryPairs(qs))

----------------------------------------------------------------------------
(* The inputs of a run: what the providers may answer *)

MaxRows == 2

\* The ids of the rows, as the database sends them; one row carries the id
\* that line 357 reads as "not in the database yet".
PageIds == <<"page-1", "new_entry", "page-3", "page-4">>

TitleOf(text) == [Name |-> [title |-> <<[plain_text |-> text]>>]]

\* The "properties" of a database row: a row without a Name property, a row
\* whose title is empty (the API sends an empty list), and titled rows.
RowProperties ==
    { [Rating |-> [number |-> 5]],
      [Name |-> [title |-> <<>>]],
      TitleOf("Roses"),
      TitleOf("Roses;"),
      TitleOf("https://maps.app.goo.gl/abc") }

Databases ==
    UNION { { [i \in 1..n |-> [id |-> PageIds[i], properties |-> f[i]]] :
              f \in [1..n -> RowProperties] } : n \in 0..MaxRows }

\* Where a short link may lead.
ExpandedUrls ==
    { "https://maps.google.com/?ftid=0x1&q=Roses",
      "https://maps.google.com/?q=Roses",
      "https://maps.google.com/?ftid=0x1",
      "https://maps.google.com/?ftid=&q=Roses",
      "https://maps.google.com/" }

\* The "result" of a place-details answer.
RawDetails ==
    { [name |-> PyStr("Rose's Luxury"),
       website |-> PyStr("https://rosesluxury.com"),
       price_level |-> PyInt(2),
       address_components |->
           << [types |-> {"locality", "political"},
               long_name |-> PyStr("Washington")],
              [types |-> {"country", "political"},
               long_name |-> PyStr("United States")] >>,
       url |-> PyStr("https://maps.google.com/?cid=1"),
       formatted_address |-> PyStr("717 8th St SE"),
       photos |-> <<[photo_reference |-> PyStr("ref-1")]>>],
      [name |-> PyStr("Cafe")],
      [name |-> PyStr("Kiosk"),
       address_components |-> <<[types |-> {"locality"}]>>,
       photos |-> <<[photo_reference |-> PyStr("ref-2")]>>] }

\* What make_request returns for a place-details request: None after a
\* requests.RequestException, else the decoded body.
DetailsAnswers ==
    {PyNone} \cup {[status |-> "NOT_FOUND"]}
    \cup {[status |-> "OK", result |-> r] : r \in RawDetails}

\* What make_request returns for a find-place request.
FindPlaceAnswers ==
    { PyNone,
      [status |-> "ZERO_RESULTS", candidates |-> <<>>],
      [status |-> "OK", candidates |-> <<>>],
      [status |-> "OK",
       candidates |-> <<[place_id |-> "ChIJ-1"], [place_id |-> "ChIJ-2"]>>] }

\* The photo relay: the photo fetch raises, answers with a status, and the
\* upload raises or answers.
PhotoAnswers ==
    { [fetch |-> "raise"],
      [fetch |-> "403"],
      [fetch |-> "200", upload |-> "raise"],
      [fetch |-> "200", upload |-> "ok", result |-> <<>>],
      [fetch |-> "200", upload |-> "ok",
       result |-> [secure_url |-> PyStr("https://res.cloudinary.com/i.jpg")]] }

\* The cuisine provider: the request raises, or answers status and body.
YelpAnswers ==
    { [status |-> "raise"],
      [status |-> "500"],
      [status |-> "200", json |-> <<>>],
      [status |-> "200", json |-> [businesses |-> <<>>]],
      [status |-> "200", json |-> [businesses |-> <<[name |-> "r"]>>]],
      [status |-> "200",
       json |-> [businesses |->
                   <<[categories |-> <<[title |-> "American"],
                                       [title |-> "Southern"]>>]>>]] }

\* The database's answer to a patch or a create.
SyncAnswers == {"raise", "200", "400"}

\* The database's answer to the query of get_restaurants_from_notion.
QueryAnswers == {"raise", "200", "401"}

\* The command lines of a run started by hand.
CommandLines == {<<>>, <<"Roses">>, <<"https://maps.app.goo.gl/abc">>}

----------------------------------------------------------------------------
(* gastropath.py: the pure parts of the pipeline *)

\* lines 66-76: [None] is the default, [0] takes the first value.
first_values(query_params) ==
    LET ftid0 == IF "ftid" \in DOMAIN query_params
                 THEN PyStr(query_params["ftid"][1]) ELSE PyNone
        query0 == IF "q" \in DOMAIN query_params
                  THEN PyStr(query_params["q"][1]) ELSE PyNone
    IN  IF ~Truthy(ftid0) \/ ~Truthy(query0)
        THEN [ftid |-> PyNone, query |-> PyNone]
        ELSE [ftid |-> ftid0, query |-> query0]

extract_place_info(url) ==
    ByValue(first_values,
            ByValue(LAMBDA parsed_url : parse_qs(parsed_url.query),
                    urlparse(url)))

\* line 209: the rows the list comprehension keeps
has_name(result) == "Name" \in DOMAIN result.properties

\* line 209: title[0] of a kept row with an empty title raises IndexError
raises_IndexError(results) ==
    \E i \in 1..Len(results) :
        has_name(results[i]) /\ results[i].properties.Name.title = <<>>

\* line 209: one element of the list comprehension
restaurant_of(result) ==
    [id |-> result.id,
     identifier |-> result.properties.Name.title[1].plain_text]

\* lines 208-209
restaurants_from(results) ==
    LET kept == SelectSeq(results, has_name)
    IN  [i \in 1..Len(kept) |-> restaurant_of(kept[i])]

\* lines 177-197: what upload_image_to_cloudinary returns when the photo
\* fetch does not raise
cover_of(answer) ==
    IF answer.fetch = "200" /\ answer.upload = "ok"
    THEN Get(answer.result, "secure_url", PyNone)
    ELSE PyNone

\* ', '.join
RECURSIVE join(_, _)
join(sep, strings) ==
    IF strings = <<>> THEN ""
    ELSE IF Len(strings) = 1 THEN strings[1]
    ELSE strings[1] \o sep \o join(sep, Tail(strings))

\* lines 326-336: what get_cuisine_type_from_yelp returns when the request
\* does not raise
cuisine_of(answer) ==
    IF answer.status = "200"
    THEN LET businesses == Get(answer.json, "businesses", <<>>)
         IN  IF businesses # <<>>
             THEN LET cats == Get(businesses[1], "categories", <<>>)
                      categories == [i \in 1..Len(cats) |-> cats[i].title]
                  IN  IF categories # <<>>
                      THEN PyStr(join(", ", categories))
                      ELSE PyStr(UNKNOWN)
             ELSE PyStr(UNKNOWN)
    ELSE PyStr(UNKNOWN)

\* line 352: place_details["cuisine_type"] = cuisine_type
with_cuisine_type(details, cuisine_type) ==
    [k \in DOMAIN details \cup {"cuisine_type"} |->
        IF k = "cuisine_type" THEN cuisine_type ELSE details[k]]

rich_text(content) == [rich_text |-> <<[text |-> [content |-> content]]>>]

\* lines 222-244 and 271-293: the same properties in both requests
notion_properties(details) ==
    "City" :> rich_text(Get(details, "city", PyStr(UNKNOWN)))
    @@ "Country" :> rich_text(Get(details, "country", PyStr(UNKNOWN)))
    @@ "Cuisine Type" :>
           rich_text(Get(details, "cuisine_type", PyStr(UNKNOWN)))
    @@ "Google Maps" :>
           [url |-> Get(details, "google_maps_link", PyStr(UNKNOWN))]
    @@ "Price range" :>
           [select |-> [name |-> Get(details, "price_level", PyStr(UNKNOWN))]]
    @@ "Website" :> [url |-> Get(details, "website", PyStr(UNKNOWN))]
    @@ "Name" :> [title |-> <<[text |-> [content |->
                      Get(details, "name", PyStr(UNKNOWN))]]>>]

\* lines 246-252 and 299-305: data["cover"] is set only for a truthy cover_url
with_cover(data, url) ==
    IF Truthy(url)
    THEN [k \in DOMAIN data \cup {"cover"} |->
            IF k = "cover"
            THEN [type |-> "external", external |-> [url |-> url]]
            ELSE data[k]]
    ELSE data

\* lines 221-252
update_data(details, url) ==
    with_cover([properties |-> notion_properties(details)], url)

\* lines 266-305
create_data(details, url) ==
    with_cover([parent |-> [database_id |-> "NOTION_DATABASE_ID",
                            type |-> "database_id"],
                properties |-> notion_properties(details),
                icon |-> [type |-> "emoji", emoji |-> "plate"]], url)

\* line 357 without its second test: every entry with an id is patched
is_update_any_id(e) == "id" \in DOMAIN e

\* line 357
is_update(e) == "id" \in DOMAIN e /\ e["id"] # "new_entry"

\* lines 390-393 and 373: main's url
url_of(args) == IF Len(args) > 0 THEN PyStr(args[1]) ELSE PyNone

\* line 384 with a loop that stops one restaurant early
has_next_but_last(list, i) == i + 1 < Len(list)

\* line 384: whether the for loop has another restaurant after the i-th
has_next(list, i) == i < Len(list)

----------------------------------------------------------------------------
(* gastropath.py: the pipeline process, one action per blocking step *)

NoEntry == <<>>

\* The locals of process_restaurant before its first assignment.
locals == <<expanded_url, ftid, query, place_details, cover_url, place_id>>
outside == <<nvars, svars, argv, db>>

\* line 100 with the direct fetch left out: the text search comes first
first_lookup_by_text(id) == "find_place"

\* line 100: the first lookup is the direct fetch when there is an ftid,
\* else the text search
first_lookup(id) == IF Truthy(id) THEN "details_by_ftid" ELSE "find_place"

\* lines 109 and 135: the answer to a details request is a success
details_ok(data) == data # PyNone /\ data.status = "OK"

\* line 122: the answer to a find-place request names a candidate
find_place_ok(find_place_data) ==
    /\ find_place_data # PyNone
    /\ find_place_data.status = "OK"
    /\ find_place_data.candidates # <<>>

\* lines 338-342 and 78-89: the call process_restaurant(e), up to the first
\* request it makes
process_restaurant(e) ==
    /\ entry' = e
    /\ attempted' = Append(attempted, e)
    /\ calls' = <<>>
    /\ entry_log' = ""
    /\ place_details' = PyNone
    /\ cover_url' = PyNone
    /\ place_id' = PyNone
    /\ expanded_url' = PyNone
    /\ IF startswith(e.identifier, "http")
       THEN /\ pc' = "expand_short_url"
            /\ ftid' = PyNone
            /\ query' = PyNone
       ELSE /\ ftid' = PyNone
            /\ query' = PyStr(e.identifier)
            /\ pc' = first_lookup(PyNone)

\* lines 371-379: main up to its first request
main ==
    /\ pc = "main"
    /\ log' = Append(log, "Starting Gastropath update process")
    /\ IF Truthy(url_of(argv))
       THEN process_restaurant([identifier |-> url_of(argv).v])
       ELSE /\ pc' = "get_restaurants_from_notion"
            /\ UNCHANGED <<entry, locals, entry_log, calls, attempted>>
    /\ UNCHANGED <<outside, restaurants, idx, exitcode>>

\* lines 199-212, then main 380-385.  An exception of requests.post or of
\* the list comprehension is caught nowhere: the process ends with a
\* traceback and status 1.
get_restaurants_from_notion ==
    /\ pc = "get_restaurants_from_notion"
    /\ \E answer \in QueryAnswers :
        LET found == IF answer = "200" THEN restaurants_from(db) ELSE <<>>
        IN  IF answer = "raise" \/ (answer = "200" /\ raises_IndexError(db))
            THEN /\ pc' = "exited"
                 /\ exitcode' = PyInt(1)
                 /\ UNCHANGED <<restaurants, idx, entry, log, locals,
                                entry_log, calls, attempted>>
            ELSE IF found = <<>>
            THEN /\ restaurants' = found
                 /\ log' = Append(log, "No restaurants found in Notion database.")
                 /\ pc' = "exited"
                 /\ exitcode' = PyInt(0)
                 /\ UNCHANGED <<idx, entry, locals, entry_log, calls,
                                attempted>>
            ELSE /\ restaurants' = found
                 /\ idx' = 1
                 /\ process_restaurant(found[1])
                 /\ UNCHANGED <<log, exitcode>>
    /\ UNCHANGED outside

\* lines 142-143 and 368-369: no record, the entry is skipped with a warning
no_details ==
    /\ pc' = "returned"
    /\ entry_log' = "No details found"
    /\ UNCHANGED <<place_details, cover_url>>

\* lines 343-346: a record was found, the try block starts
detailed(details) ==
    /\ place_details' = details
    /\ cover_url' = PyNone
    /\ pc' = IF Truthy(details.photo_reference)
             THEN "upload_image_to_cloudinary"
             ELSE "get_cuisine_type_from_yelp"
    /\ UNCHANGED entry_log

\* lines 366-367: an exception inside the try block
caught ==
    /\ pc' = "returned"
    /\ entry_log' = "Error processing"

\* lines 82-84 without the test of lines 85-86
resolve_url_unchecked(expanded) ==
    IF ~Truthy(expanded) THEN PyNone ELSE extract_place_info(expanded.v)

\* lines 82-86: the (ftid, query) of an expanded URL, or None when the
\* expansion failed or a parameter is missing
resolve_url(expanded) ==
    IF ~Truthy(expanded)
    THEN PyNone
    ELSE LET info == extract_place_info(expanded.v)
         IN  IF ~Truthy(info.ftid) \/ ~Truthy(info.query)
             THEN PyNone
             ELSE info

\* lines 56-64 and 81-86, then line 100.  expand_short_url returns None when
\* urlopen raises.
expand_short_url ==
    /\ pc = "expand_short_url"
    /\ calls' = Append(calls, [op |-> "expand", url |-> entry.identifier])
    /\ \E expanded \in {PyNone} \cup {PyStr(u) : u \in ExpandedUrls} :
        /\ expanded_url' = expanded
        /\ \E info \in {resolve_url(expanded)} :
            IF info = PyNone
            THEN no_details /\ UNCHANGED <<ftid, query>>
            ELSE /\ ftid' = info.ftid
                 /\ query' = info.query
                 /\ pc' = first_lookup(info.ftid)
                 /\ UNCHANGED <<place_details, cover_url, entry_log>>
    /\ UNCHANGED <<outside, restaurants, idx, entry, place_id, attempted, log,
                   exitcode>>

\* lines 100-110
details_by_ftid ==
    /\ pc = "details_by_ftid"
    /\ \E data \in DetailsAnswers :
        /\ calls' = Append(calls, [op |-> "details", place_id |-> ftid.v,
                                   ok |-> details_ok(data)])
        /\ IF details_ok(data)
           THEN detailed(process_place_details(data.result))
              ELSE /\ pc' = "find_place"
                /\ UNCHANGED <<place_details, cover_url, entry_log>>
    /\ UNCHANGED <<outside, restaurants, idx, entry, expanded_url, ftid, query,
                   place_id, attempted, log, exitcode>>

\* lines 112-124 and 139-143
find_place ==
    /\ pc = "find_place"
    /\ \E find_place_data \in FindPlaceAnswers :
        /\ calls' = Append(calls, [op |-> "findplace", input |-> query.v,
                                   ok |-> find_place_ok(find_place_data)])
        /\ IF find_place_ok(find_place_data)
           THEN /\ place_id' = PyStr(find_place_data.candidates[1].place_id)
                /\ pc' = "details_by_place_id"
                /\ UNCHANGED <<place_details, cover_url, entry_log>>
           ELSE no_details /\ UNCHANGED place_id
    /\ UNCHANGED <<outside, restaurants, idx, entry, expanded_url, ftid, query,
                   attempted, log, exitcode>>

\* lines 126-143
details_by_place_id ==
    /\ pc = "details_by_place_id"
    /\ \E data \in DetailsAnswers :
        /\ calls' = Append(calls, [op |-> "details", place_id |-> place_id.v,
                                   ok |-> details_ok(data)])
        /\ IF details_ok(data)
           THEN detailed(process_place_details(data.result))
           ELSE no_details
    /\ UNCHANGED <<outside, restaurants, idx, entry, expanded_url, ftid, query,
                   place_id, attempted, log, exitcode>>

\* lines 177-197 and 346-348.  requests.get at line 182 stands outside the
\* try of lines 184-194: when it raises, the exception leaves the function
\* and is caught at line 366.
upload_image_to_cloudinary ==
    /\ pc = "upload_image_to_cloudinary"
    /\ \E answer \in PhotoAnswers :
        /\ calls' = calls
              \o <<[op |-> "photo",
                    photo_reference |-> place_details.photo_reference.v]>>
              \o (IF answer.fetch = "200" THEN <<[op |-> "upload"]>> ELSE <<>>)
        /\ IF answer.fetch = "raise"
           THEN caught /\ UNCHANGED cover_url
           ELSE /\ cover_url' = cover_of(answer)
                /\ pc' = "get_cuisine_type_from_yelp"
                /\ UNCHANGED entry_log
    /\ UNCHANGED <<outside, restaurants, idx, entry, expanded_url, ftid, query,
                   place_details, place_id, attempted, log, exitcode>>

\* lines 315-336 and 350-355
get_cuisine_type_from_yelp ==
    /\ pc = "get_cuisine_type_from_yelp"
    /\ calls' = Append(calls, [op |-> "yelp",
                               term |-> place_details.name,
                               location |-> place_details.city])
    /\ \E answer \in YelpAnswers :
        IF answer.status = "raise"
        THEN caught /\ UNCHANGED place_details
        ELSE /\ place_details' =
                    with_cuisine_type(place_details, cuisine_of(answer))
             /\ pc' = "sync"
             /\ UNCHANGED entry_log
    /\ UNCHANGED <<outside, restaurants, idx, entry, expanded_url, ftid, query,
                   cover_url, place_id, attempted, log, exitcode>>

\* lines 362-367: what process_restaurant logs after the sync call
synced(answer) ==
    /\ pc' = "returned"
    /\ entry_log' =
         IF answer = "raise" THEN "Error processing"
         ELSE IF answer = "200"
         THEN (IF "id" \in DOMAIN entry THEN "Successfully updated"
               ELSE "Successfully created")
         ELSE (IF "id" \in DOMAIN entry THEN "Failed to update"
               ELSE "Failed to create")

\* lines 357-358 and 214-257
update_notion_entry ==
    /\ pc = "sync"
    /\ is_update(entry)
    /\ calls' = Append(calls, [op |-> "patch", id |-> entry["id"],
                               data |-> update_data(place_details, cover_url)])
    /\ \E answer \in SyncAnswers : synced(answer)
    /\ UNCHANGED <<outside, restaurants, idx, entry, locals, attempted, log,
                   exitcode>>

\* lines 359-360 and 259-313
create_notion_entry ==
    /\ pc = "sync"
    /\ ~is_update(entry)
    /\ calls' = Append(calls, [op |-> "create",
                               data |-> create_data(place_details, cover_url)])
    /\ \E answer \in SyncAnswers : synced(answer)
    /\ UNCHANGED <<outside, restaurants, idx, entry, locals, attempted, log,
                   exitcode>>

\* lines 376-377 and 384-387: process_restaurant returned to main
main_next ==
    /\ pc = "returned"
    /\ IF ~Truthy(url_of(argv)) /\ has_next(restaurants, idx)
       THEN /\ idx' = idx + 1
            /\ process_restaurant(restaurants[idx + 1])
            /\ UNCHANGED <<log, exitcode>>
       ELSE /\ log' = Append(log, "Gastropath update process completed")
            /\ pc' = "exited"
            /\ exitcode' = PyInt(0)
            /\ UNCHANGED <<idx, entry, locals, entry_log, calls, attempted>>
    /\ UNCHANGED <<outside, restaurants>>

pipeline ==
    \/ main
    \/ get_restaurants_from_notion
    \/ expand_short_url
    \/ details_by_ftid
    \/ find_place
    \/ details_by_place_id
    \/ upload_image_to_cloudinary
    \/ get_cuisine_type_from_yelp
    \/ update_notion_entry
    \/ create_notion_entry
    \/ main_next

\* The state before the pipeline process starts.
pipeline_init ==
    /\ restaurants = <<>>
    /\ idx = 0
    /\ entry = NoEntry
    /\ expanded_url = PyNone
    /\ ftid = PyNone
    /\ query = PyNone
    /\ place_details = PyNone
    /\ cover_url = PyNone
    /\ place_id = PyNone
    /\ entry_log = ""
    /\ calls = <<>>
    /\ attempted = <<>>
    /\ log = <<>>
    /\ exitcode = PyNone

----------------------------------------------------------------------------
(* gastropath_server.py: the trigger endpoint *)

API_KEY == PyStr("secret")

MaxUrlLength == 2000

Alnum ==
    { "a", "b", "c", "d", "e", "f", "g", "h", "i", "j", "k", "l", "m",
      "n", "o", "p", "q", "r", "s", "t", "u", "v", "w", "x", "y", "z",
      "A", "B", "C", "D", "E", "F", "G", "H", "I", "J", "K", "L", "M",
      "N", "O", "P", "Q", "R", "S", "T", "U", "V", "W", "X", "Y", "Z",
      "0", "1", "2", "3", "4", "5", "6", "7", "8", "9" }

\* line 69: re.match(r'^/[A-Za-z0-9]+$', path)
path_matches(path) ==
    /\ Len(path) >= 2
    /\ CharAt(path, 1) = "/"
    /\ \A i \in 2..Len(path) : CharAt(path, i) \in Alnum

\* urllib.parse.quote_plus, on the characters the requests of this model use
quote_char(c) ==
    IF c \in Alnum \cup {"_", ".", "-", "~"} THEN c
    ELSE IF c = " " THEN "+"
    ELSE IF c = "/" THEN "%2F"
    ELSE IF c = ":" THEN "%3A"
    ELSE IF c = "=" THEN "%3D"
    ELSE IF c = "?" THEN "%3F"
    ELSE "%25"

quote_plus(str) ==
    join("", [i \in 1..Len(str) |-> quote_char(CharAt(str, i))])

\* lines 72-78: the allow-listed parameters, encoded by urlencode(doseq=True)
sanitized_query(query_params) ==
    IF "g_st" \in DOMAIN query_params
    THEN join("&", [i \in 1..Len(query_params["g_st"]) |->
                      "g_st=" \o quote_plus(query_params["g_st"][i])])
    ELSE ""

\* lines 64-80, for a url that is a string of an allowed length
sanitize_parsed(parsed_url) ==
    LET sanitized_params == sanitized_query(parse_qs(parsed_url.query))
    IN  IF parsed_url.netloc # "maps.app.goo.gl"
        THEN [url |-> PyNone,
              error |-> PyStr("URL is not from a trusted domain")]
        ELSE IF ~path_matches(parsed_url.path)
        THEN [url |-> PyNone, error |-> PyStr("Invalid URL path")]
        ELSE [url |-> PyStr("https://" \o parsed_url.netloc
                            \o parsed_url.path
                            \o (IF sanitized_params # ""
                                THEN "?" \o sanitized_params ELSE "")),
              error |-> PyNone]

\* lines 57-80: the pair (sanitized_url, error)
validate_and_sanitize_url(url) ==
    IF ~Truthy(url) \/ url.t # "str"
    THEN [url |-> PyNone, error |-> PyStr("Invalid URL format")]
    ELSE IF Len(url.v) > MaxUrlLength
    THEN [url |-> PyNone, error |-> PyStr("URL exceeds maximum length")]
    ELSE ByValue(sanitize_parsed, urlparse(url.v))

\* The URL values a request body may carry.
RequestUrls ==
    { PyStr("https://maps.app.goo.gl/abc"),
      PyStr("https://maps.app.goo.gl/abc?g_st=ic&utm=1"),
      PyStr("https://evil.com/abc"),
      PyStr("https://maps.app.goo.gl.evil.com/abc"),
      PyStr("https://maps.app.goo.gl/a/b"),
      PyStr("https://maps.app.goo.gl/"),
      PyStr("https://maps.app.goo.gl/" \o StrTimes("a", MaxUrlLength)),
      PyStr(""),
      PyInt(7),
      PyNone }

\* What request.json gives: it raises (no JSON body), or the decoded body.
RequestBodies ==
    { [t |-> "raise", v |-> ""],
      PyNone,
      [t |-> "list", v |-> <<>>],
      [t |-> "dict", v |-> <<>>] }
    \cup { [t |-> "dict", v |-> [URL |-> u]] : u \in RequestUrls }

RequestHeaders ==
    { <<>>, "X-API-Key" :> PyStr("guess"), "X-API-Key" :> API_KEY }

\* over_limit: the limiter of lines 32-36 and 83 refuses the request.
Requests ==
    [over_limit : BOOLEAN, headers : RequestHeaders, json : RequestBodies]

jsonify(status, body) == [status |-> status, json |-> body]

\* lines 136-142
ratelimit_handler ==
    jsonify(429, [status |-> "error",
                  message |-> "Rate limit exceeded. Please try again later."])

\* lines 108-113: the request is refused, or the pipeline is to be started
\* with the sanitized URL
validated(checked) ==
    IF checked.error # PyNone
    THEN [response |-> jsonify(400, [error |-> checked.error.v]),
          sanitized_url |-> PyNone]
    ELSE [response |-> PyNone, sanitized_url |-> checked.url]

\* lines 92-113: the response of a request that is refused before the
\* pipeline is started, or the sanitized URL to start it with.  An exception
\* (request.json raising, or data.get on a body that is no dict) is caught
\* at line 128.
screen_request(req) ==
    IF Get(req.headers, "X-API-Key", PyNone) # API_KEY
    THEN [response |-> jsonify(401, [error |-> "Invalid API key"]),
          sanitized_url |-> PyNone]
    ELSE IF req.json.t # "dict"
    THEN [response |-> jsonify(500, [status |-> "error",
                                     message |-> "Internal server error"]),
          sanitized_url |-> PyNone]
    ELSE IF ~Truthy(Get(req.json.v, "URL", PyNone))
    THEN [response |-> jsonify(400, [error |-> "No URL provided"]),
          sanitized_url |-> PyNone]
    ELSE ByValue(validated, validate_and_sanitize_url(req.json.v.URL))

\* lines 84-115: add_restaurant up to subprocess.run
add_restaurant ==
    /\ request # PyNone
    /\ response = PyNone
    /\ invoked = 0
    /\ IF request.over_limit
       THEN /\ response' = ratelimit_handler
            /\ UNCHANGED <<invoked, argv, pc>>
       ELSE \E screened \in {screen_request(request)} :
            IF screened.response # PyNone
            THEN /\ response' = screened.response
                 /\ UNCHANGED <<invoked, argv, pc>>
            ELSE /\ invoked' = invoked + 1
                 /\ argv' = <<screened.sanitized_url.v>>
                 /\ pc' = "main"
                 /\ UNCHANGED response
    /\ UNCHANGED <<nvars, request, db, restaurants, idx, entry, locals,
                   entry_log, calls, attempted, log, exitcode>>

\* lines 117-126: subprocess.run returned
add_restaurant_result ==
    /\ invoked = 1
    /\ response = PyNone
    /\ pc = "exited"
    /\ response' =
         IF exitcode = PyInt(0)
         THEN [status |-> 200, text |-> "Restaurant added successfully"]
         ELSE jsonify(500, [status |-> "error",
                            message |-> "Failed to add restaurant"])
    /\ UNCHANGED <<nvars, request, invoked, pvars>>

server == add_restaurant \/ add_restaurant_result

----------------------------------------------------------------------------
(* The specification of the pipeline and of the trigger endpoint *)

\* A run started from the command line, or a request to the endpoint.
Init ==
    /\ n_details = PyNone
    /\ n_record = PyNone
    /\ pipeline_init
    /\ response = PyNone
    /\ invoked = 0
    /\ \/ /\ request = PyNone
          /\ pc = "main"
          /\ argv = <<>>
          /\ db \in Databases
       \/ /\ request = PyNone
          /\ pc = "main"
          /\ argv \in CommandLines \ {<<>>}
          /\ db = <<>>
       \/ /\ request \in Requests
          /\ pc = "not started"
          /\ argv = <<>>
          /\ db = <<>>

Next == pipeline \/ server

Spec == Init /\ [][Next]_vars

\* The pipeline process is sequential and every request it makes is
\* answered or fails: it takes its next step as long as it has one.
FairSpec == Spec /\ WF_vars(pipeline)

----------------------------------------------------------------------------
(* The specification of process_place_details alone *)

MaxComponents == 2
MaxTier == 5

\* The address components a provider result may list.
Components ==
    { [types |-> {"locality", "political"}, long_name |-> PyStr("Paris")],
      [types |-> {"locality"}, long_name |-> PyStr("Lyon")],
      [types |-> {"country", "political"}, long_name |-> PyStr("France")],
      [types |-> {"country"}, long_name |-> PyStr("Italy")],
      [types |-> {"locality"}],
      [long_name |-> PyStr("Rue Cler")],
      [types |-> {"route"}, long_name |-> PyStr("Rue Cler")] }

ComponentLists ==
    UNION { [1..n -> Components] : n \in 0..MaxComponents }

\* The values of "price_level": integers around the tiers 0..4, a string, a
\* float and null.
PriceLevels ==
    {PyInt(n) : n \in -1..MaxTier} \cup {PyStr("2"), PyFloat(2), PyNone}

\* A provider result with the given optional fields: <<>> is "absent", <<v>>
\* is "present with value v".
raw_details(price_level, address_components) ==
    [k \in (IF price_level # <<>> THEN {"price_level"} ELSE {})
           \cup (IF address_components # <<>> THEN {"address_components"}
                 ELSE {}) |->
        IF k = "price_level" THEN price_level[1] ELSE address_components[1]]

NormInputs ==
    { raw_details(p, a) :
        p \in {<<>>} \cup {<<v>> : v \in PriceLevels},
        a \in {<<>>} \cup {<<l>> : l \in ComponentLists} }

NormInit ==
    /\ n_details \in NormInputs
    /\ n_record = PyNone
    /\ pipeline_init
    /\ pc = "not started"
    /\ argv = <<>>
    /\ db = <<>>
    /\ request = PyNone
    /\ response = PyNone
    /\ invoked = 0

normalize ==
    /\ n_record = PyNone
    /\ n_record' = process_place_details(n_details)
    /\ UNCHANGED <<n_details, pvars, svars>>

NormNext == normalize

SpecNorm == NormInit /\ [][NormNext]_vars

----------------------------------------------------------------------------
(* Properties of the pipeline and of the endpoint *)

Ops(opnames) == SelectSeq(calls, LAMBDA c : c.op \in opnames)
Batch == request = PyNone /\ argv = <<>>
Single == Len(argv) > 0 /\ argv[1] # ""
Completed ==
    \E i \in 1..Len(log) : log[i] = "Gastropath update process completed"

\* The entry went through the cuisine lookup without an exception: line 357
\* is reached.
ReachedSync ==
    /\ pc = "returned"
    /\ place_details # PyNone
    /\ "cuisine_type" \in DOMAIN place_details
    /\ \E i \in 1..Len(calls) : calls[i].op = "yelp"

\* C1: an entry that reaches the sync step gets exactly one sync request: a
\* Patch of its own row when it carries an id other than "new_entry", a
\* Create otherwise; no entry gets both, and no entry is processed twice in
\* a run.
C1_SyncExclusive ==
    /\ Len(Ops({"patch", "create"})) <= 1
    /\ ReachedSync => Len(Ops({"patch", "create"})) = 1
    /\ \A i \in 1..Len(calls) :
        /\ calls[i].op = "patch" =>
              /\ "id" \in DOMAIN entry
              /\ entry["id"] # "new_entry"
              /\ calls[i].id = entry["id"]
        /\ calls[i].op = "create" =>
              ("id" \notin DOMAIN entry \/ entry["id"] = "new_entry")
    /\ \A i, j \in 1..Len(attempted) : attempted[i] = attempted[j] => i = j

\* C1 witness: a row of the database was patched, and the run went on.
C1_Witness ==
    /\ ReachedSync
    /\ "id" \in DOMAIN entry
    /\ Len(Ops({"patch"})) = 1
    /\ entry_log = "Successfully updated"

\* The single entry failed: no record was found, or the write was rejected.
SingleEntryFailed ==
    /\ Single
    /\ pc = "exited"
    /\ entry_log \in {"No details found", "Failed to create", "Failed to update"}

\* C2: in single-entry mode a failed entry ends the process with a non-zero
\* status, and add_restaurant never answers it with success.
C2_SingleFailurePropagates ==
    SingleEntryFailed =>
        /\ exitcode # PyInt(0)
        /\ response # PyNone => response.status # 200

\* C3 as stated: a batch run that has ended has attempted every discovered
\* entry and logged the completion marker, also when discovery found nothing
\* or failed.
C3_BatchAlwaysCompletes ==
    (Batch /\ pc = "exited") => (Completed /\ attempted = restaurants)

\* The entries are attempted in the order of discovery, one at a time: the
\* attempted entries are a prefix of the discovered ones, and the entry in
\* hand is the last attempted.
AttemptedInOrder ==
    /\ Len(attempted) <= Len(restaurants)
    /\ attempted = SubSeq(restaurants, 1, Len(attempted))
    /\ pc \notin {"main", "get_restaurants_from_notion", "exited"}
          => attempted # <<>>
    /\ attempted # <<>> => entry = attempted[Len(attempted)]

BatchDone ==
    /\ pc = "exited"
    /\ exitcode = PyInt(0)
    /\ attempted = restaurants
    /\ log[Len(log)] = "Gastropath update process completed"

\* C3, amended: a batch run whose discovery returns at least one entry
\* attempts every entry in order, one at a time, whatever entries fail, and
\* then logs the completion marker; a run whose discovery returns no entry
\* ends without the marker.
C3_BatchCompletesWhenDiscovered ==
    /\ [](Batch => AttemptedInOrder)
    /\ [](Batch /\ pc = "exited" /\ restaurants # <<>> => BatchDone)
    /\ [](Batch /\ pc = "exited" /\ restaurants = <<>> => ~Completed)
    /\ (Batch /\ restaurants # <<>>) ~> BatchDone

\* C3 witness: a batch of two entries ended although its last entry failed.
C3_Witness ==
    /\ Batch
    /\ BatchDone
    /\ Len(attempted) = 2
    /\ entry_log \in {"No details found", "Error processing", "Failed to update"}

EndsWithMarker(title) ==
    Len(title) >= 1 /\ SubSeq(title, Len(title), Len(title)) = ";"

StripMarker(title) == SubSeq(title, 1, Len(title) - 1)

TitleText(row) ==
    IF "Name" \in DOMAIN row.properties /\ row.properties.Name.title # <<>>
    THEN row.properties.Name.title[1].plain_text
    ELSE ""

MarkedRows == SelectSeq(db, LAMBDA row : EndsWithMarker(TitleText(row)))

\* C4: what batch discovery yields is exactly the rows whose title ends with
\* ";", each with its title less one trailing ";" as identifier; no other row
\* is looked up or written.
C4_MarkerDiscovery ==
    Batch =>
        /\ \A i \in 1..Len(restaurants) :
              \E k \in 1..Len(db) :
                  /\ db[k].id = restaurants[i].id
                  /\ EndsWithMarker(TitleText(db[k]))
                  /\ restaurants[i].identifier = StripMarker(TitleText(db[k]))
        /\ restaurants # <<>> => Len(restaurants) = Len(MarkedRows)
        /\ \A i \in 1..Len(attempted) :
              \E k \in 1..Len(db) :
                  /\ db[k].id = attempted[i].id
                  /\ EndsWithMarker(TitleText(db[k]))

\* The named parameter is missing from the query of the url, or blank.
LacksParameter(url, name) ==
    LET pairs == QueryPairs(urlparse(url).query)
    IN  \A i \in 1..Len(pairs) : pairs[i][1] # name

\* The identifier of the entry in hand is a URL whose expansion has been
\* tried and failed, or led to a URL without ftid or without q.
ResolutionFailed ==
    /\ entry # NoEntry
    /\ startswith(entry.identifier, "http")
    /\ pc # "expand_short_url"
    /\ \/ expanded_url = PyNone
       \/ LacksParameter(expanded_url.v, "ftid")
       \/ LacksParameter(expanded_url.v, "q")

\* C5: after a failed resolution the only request made for the entry is the
\* expansion, the entry is reported as without details, the process does not
\* crash, and the next step of a batch is the next entry (or the end of the
\* run after the last one).
C5_ResolutionFailureSkips ==
    /\ [](ResolutionFailed =>
            /\ Len(calls) = 1 /\ calls[1].op = "expand"
            /\ entry_log = "No details found"
            /\ place_details = PyNone
            /\ pc \in {"returned", "exited"}
            /\ exitcode \in {PyNone, PyInt(0)})
    /\ [][ResolutionFailed /\ pc = "returned" =>
            IF Batch /\ idx < Len(restaurants)
            THEN /\ entry' = restaurants[idx + 1]
                 /\ attempted' = Append(attempted, entry')
                 /\ calls' = <<>>
            ELSE /\ pc' = "exited"
                 /\ exitcode' = PyInt(0)
                 /\ Completed']_vars

\* C5 witness: in a batch, an entry whose link led to a URL without ftid was
\* skipped and the next entry is being processed.
C5_Witness ==
    /\ Batch
    /\ Len(attempted) = 2
    /\ startswith(attempted[1].identifier, "http")
    /\ ResolutionFailed
    /\ expanded_url # PyNone
    /\ pc = "returned"

\* C6: when a photo was requested and the relay gave no cover image, the
\* cuisine lookup and the sync still take place, and the row is written
\* without a cover.
C6_PhotoFailureDoesNotStopSync ==
    (/\ Len(Ops({"photo"})) = 1
     /\ ~Truthy(cover_url)
     /\ pc = "returned")
    => /\ Len(Ops({"yelp"})) = 1
       /\ entry_log # "Error processing" =>
             /\ Len(Ops({"patch", "create"})) = 1
             /\ "cover" \notin DOMAIN Ops({"patch", "create"})[1].data

PropertyValues(data) ==
    { data.properties["City"].rich_text[1].text.content,
      data.properties["Country"].rich_text[1].text.content,
      data.properties["Cuisine Type"].rich_text[1].text.content,
      data.properties["Google Maps"].url,
      data.properties["Price range"].select.name,
      data.properties["Website"].url,
      data.properties["Name"].title[1].text.content }

\* C10: every Patch or Create request carries a string, never null, in each
\* of its seven properties.
C10_NoNullProperty ==
    \A i \in 1..Len(calls) :
        calls[i].op \in {"patch", "create"} =>
            \A value \in PropertyValues(calls[i].data) : value.t = "str"

\* The request is one the endpoint has to refuse: a bad credential, a body
\* that is no JSON object, no URL field, or a URL that is no string, is too
\* long, is not on the trusted host or has a path other than /[A-Za-z0-9]+.
MustBeRefused(req) ==
    \/ "X-API-Key" \notin DOMAIN req.headers
    \/ req.headers["X-API-Key"] # API_KEY
    \/ req.json.t # "dict"
    \/ "URL" \notin DOMAIN req.json.v
    \/ req.json.v.URL.t # "str"
    \/ Len(req.json.v.URL.v) > MaxUrlLength
    \/ urlparse(req.json.v.URL.v).netloc # "maps.app.goo.gl"
    \/ ~path_matches(urlparse(req.json.v.URL.v).path)

\* C7: such a request never starts the pipeline and is answered with a
\* status 4xx.
C7_BadRequestRefused ==
    (request # PyNone /\ MustBeRefused(request)) =>
        /\ invoked = 0
        /\ pc = "not started"
        /\ response # PyNone => response.status \in 400..499

----------------------------------------------------------------------------
(* Properties of process_place_details *)

\* The tier of the provider result is an integer of 0..4.
TierInRange(details) ==
    /\ "price_level" \in DOMAIN details
    /\ details.price_level.t = "int"
    /\ details.price_level.v \in 0..4

\* C8: the price level of the record is n glyphs for an integer tier n of
\* 0..4, and the unknown placeholder for a tier outside 0..4, for a tier
\* that is no number (a string, null) and for an absent tier.  A float tier
\* may be rendered either way.
C8_PriceLevelRendering ==
    n_record # PyNone =>
        IF TierInRange(n_details)
        THEN n_record.price_level =
                 PyStr(StrTimes(GLYPH, n_details.price_level.v))
        ELSE IF "price_level" \in DOMAIN n_details
                /\ n_details.price_level.t = "float"
        THEN n_record.price_level \in
                 {PyStr(UNKNOWN), PyStr(StrTimes(GLYPH, n_details.price_level.v))}
        ELSE n_record.price_level = PyStr(UNKNOWN)

\* The components of the list that carry the type, in order.
WithType(address_components, type) ==
    SelectSeq(address_components,
              LAMBDA component : /\ "types" \in DOMAIN component
                                 /\ type \in component.types)

\* The field is the long name of the first component with the type, or the
\* placeholder when no component has the type.  (What the field is when
\* that first component has no long name is left open.)
FirstMatchWins(field, address_components, type, placeholder) ==
    LET matches == WithType(address_components, type)
    IN  /\ matches = <<>> => field = PyStr(placeholder)
        /\ (matches # <<>> /\ "long_name" \in DOMAIN matches[1])
              => field = matches[1].long_name

\* C9: city is the long name of the first component of type locality and
\* country that of the first component of type country, also when several
\* components carry the type; without such a component the field is its
\* placeholder.
C9_FirstMatchWins ==
    n_record # PyNone =>
        /\ FirstMatchWins(n_record.city,
                          Get(n_details, "address_components", <<>>),
                          "locality", "No city available")
        /\ FirstMatchWins(n_record.country,
                          Get(n_details, "address_components", <<>>),
                          "country", "No country available")

----------------------------------------------------------------------------
(* Properties of get_place_details_from_google *)

\* The lookup requests made for the entry in hand, in order.
Lookups == Ops({"details", "findplace"})

\* get_place_details_from_google has returned for the entry in hand.
LookedUp ==
    /\ entry # NoEntry
    /\ pc \notin {"expand_short_url", "details_by_ftid", "find_place",
                  "details_by_place_id"}

\* The first candidate of every find-place answer that has candidates.
FirstCandidates ==
    { x.candidates[1].place_id :
        x \in {y \in FindPlaceAnswers \ {PyNone} : y.candidates # <<>>} }

\* The records process_place_details makes of the provider's results.
Records == {process_place_details(r) : r \in RawDetails}

\* C11: the lookups of an entry follow the order "first success wins".  With
\* an ftid the first request is the details fetch by that ftid, and after
\* its success no text search is made; without ftid, or after that fetch
\* failed, the text search with the query is made, and after it the details
\* fetch by the first candidate.  A record is returned exactly when the last
\* request made is a details fetch that succeeded, and none is returned only
\* after every path that was open has been tried and failed.
C11_FirstSuccessWins ==
    LET n == Len(Lookups)
        direct == Truthy(ftid)
        t == IF Truthy(ftid) THEN 2 ELSE 1
    IN  /\ n <= t + 1
        /\ (direct /\ n >= 1) =>
              /\ Lookups[1].op = "details"
              /\ Lookups[1].place_id = ftid.v
        /\ n >= t =>
              /\ Lookups[t].op = "findplace"
              /\ Lookups[t].input = query.v
        /\ n >= t + 1 =>
              /\ Lookups[t].ok
              /\ Lookups[t + 1].op = "details"
              /\ Lookups[t + 1].place_id \in FirstCandidates
        /\ \A i \in 1..(n - 1) : Lookups[i].op = "details" => ~Lookups[i].ok
        /\ pc = "details_by_ftid" => (direct /\ n = 0)
        /\ pc = "find_place" => n = t - 1
        /\ pc = "details_by_place_id" => (n = t /\ Lookups[t].ok)
        /\ LookedUp =>
              /\ place_details # PyNone <=>
                    (n >= 1 /\ Lookups[n].op = "details" /\ Lookups[n].ok)
              /\ place_details = PyNone =>
                    \/ /\ n = 0
                       /\ startswith(entry.identifier, "http")
                       /\ ~direct
                    \/ /\ n >= t
                       /\ Lookups[t].ok => n = t + 1
              /\ pc \in {"upload_image_to_cloudinary",
                         "get_cuisine_type_from_yelp"}
                    => place_details \in Records

\* C11 witness: the details fetch by ftid failed, the text search found a
\* candidate and the details fetch by that candidate returned the record.
C11_Witness ==
    /\ LookedUp
    /\ Truthy(ftid)
    /\ Len(Lookups) = 3
    /\ ~Lookups[1].ok
    /\ Lookups[3].ok
    /\ place_details # PyNone

====
